---- MODULE Spec2Model ----
(***************************************************************************)
(* Winefeed wine-data import scripts.                                      *)
(*                                                                         *)
(*   scripts/import-systembolaget.py : fetch -> (mock fallback) ->         *)
(*       transform -> save_to_json -> optional batched upload              *)
(*   scripts/import-simple.py        : create_200_wines (offline mock)     *)
(*                                                                         *)
(* Python values are modelled as tagged records.  A Python str is the      *)
(* sequence of its whitespace-delimited tokens (so str.split() is the      *)
(* token sequence itself and '' is << >>); non-ASCII letters of the        *)
(* literals are written without their diacritics.                          *)
(***************************************************************************)
EXTENDS Integers, Sequences, FiniteSets, TLC

VARIABLES
  SUPABASE_URL,          \* module global, os.getenv('NEXT_PUBLIC_SUPABASE_URL')
  SUPABASE_SERVICE_KEY,  \* module global, os.getenv('SUPABASE_SERVICE_ROLE_KEY')
  pc,                    \* position of the running script
  response,              \* outcome of the GET issued by the fetcher
  products,              \* main(): products
  mock_calls,            \* number of create_mock_wines() invocations
  wines,                 \* main(): wines  /  upload_to_supabase(wines)
  file,                  \* scripts/wines-import.json
  answer,                \* raw line read by input()
  i,                     \* upload_to_supabase: loop variable i
  posts,                 \* HTTP POSTs issued so far: <<[batch, outcome]>>
  steps,                 \* network / file / generator operations, in order
  raised,                \* exception that ended the run, and the call that raised it
  product,               \* transformer under test: its argument
  canonical,             \* transformer under test: its result
  gen,                   \* mock generator under test
  rep,                   \* generator loop: i
  tpl,                   \* generator loop: index of the template in the inner loop
  result                 \* generator loop: wines / result list

vars == <<SUPABASE_URL, SUPABASE_SERVICE_KEY, pc, response, products,
          mock_calls, wines, file, answer, i, posts, steps, raised,
          product, canonical, gen, rep, tpl, result>>

-----------------------------------------------------------------------------
(* Python values *)

PyNone == [t |-> "none"]
PyInt(n) == [t |-> "int", n |-> n]
PyFloat(tenths) == [t |-> "float", x10 |-> tenths]
PyBool(b) == [t |-> "bool", b |-> b]
PyStr(w) == [t |-> "str", w |-> w]
PyList(l) == [t |-> "list", l |-> l]
PyDict(d) == [t |-> "dict", d |-> d]

Min(a, b) == IF a <= b THEN a ELSE b

Digit(d) ==
  CASE d = 0 -> "0" [] d = 1 -> "1" [] d = 2 -> "2" [] d = 3 -> "3"
    [] d = 4 -> "4" [] d = 5 -> "5" [] d = 6 -> "6" [] d = 7 -> "7"
    [] d = 8 -> "8" [] d = 9 -> "9"

RECURSIVE NatToStr(_)
NatToStr(n) == IF n < 10 THEN Digit(n) ELSE NatToStr(n \div 10) \o Digit(n % 10)

\* str(n) for an int: decimal numeral
IntToStr(n) == IF n < 0 THEN "-" \o NatToStr(0 - n) ELSE NatToStr(n)

\* bool(v): Python truth value, as used by `not x`
Truthy(v) ==
  CASE v.t = "none" -> FALSE
    [] v.t = "bool" -> v.b
    [] v.t = "int" -> v.n # 0
    [] v.t = "float" -> v.x10 # 0
    [] v.t = "str" -> v.w # << >>
    [] v.t = "list" -> v.l # << >>
    [] v.t = "dict" -> DOMAIN v.d # {}

\* str(v) for the scalar values; a float keeps one decimal
PyStrOf(v) ==
  CASE v.t = "none" -> PyStr(<<"None">>)
    [] v.t = "bool" -> PyStr(<<IF v.b THEN "True" ELSE "False">>)
    [] v.t = "int" -> PyStr(<<IntToStr(v.n)>>)
    [] v.t = "float" ->
         LET a == IF v.x10 < 0 THEN 0 - v.x10 ELSE v.x10
         IN PyStr(<<(IF v.x10 < 0 THEN "-" ELSE "") \o NatToStr(a \div 10)
                    \o "." \o Digit(a % 10)>>)
    [] v.t = "str" -> v

\* largest literal int(str) is asked to read
MaxNumeral == 1000

\* int(v): [exc |-> "none", v |-> n] or the exception it raises
PyIntOf(v) ==
  CASE v.t = "int" -> [exc |-> "none", v |-> v.n]
    [] v.t = "bool" -> [exc |-> "none", v |-> IF v.b THEN 1 ELSE 0]
    [] v.t = "float" ->
         [exc |-> "none",
          v |-> IF v.x10 < 0 THEN 0 - ((0 - v.x10) \div 10) ELSE v.x10 \div 10]
    [] v.t = "str" ->
         IF Len(v.w) = 1 /\ \E n \in (0 - MaxNumeral)..MaxNumeral : IntToStr(n) = v.w[1]
         THEN [exc |-> "none",
               v |-> CHOOSE n \in (0 - MaxNumeral)..MaxNumeral : IntToStr(n) = v.w[1]]
         ELSE [exc |-> "ValueError", v |-> 0]
    [] OTHER -> [exc |-> "TypeError", v |-> 0]

\* dict.get(key, default)
Get(d, key, default) == IF key \in DOMAIN d THEN d[key] ELSE default

-----------------------------------------------------------------------------
(* transform_systembolaget_to_winefeed: one definition per entry of the
   returned dict literal, then the literal itself *)

namn_of(d) == Get(d, "productNameBold", Get(d, "name", PyStr(<<"Okant", "vin">>)))

producent_of(d) == Get(d, "producerName", Get(d, "producer", PyStr(<<"Okand">>)))

land_of(d) == Get(d, "country", PyStr(<<"Okant">>))

region_of(d) == Get(d, "region", PyNone)

\* int(product.get('price', product.get('priceInclVat', 0)))
pris_sek_of(d) == PyIntOf(Get(d, "price", Get(d, "priceInclVat", PyInt(0))))

beskrivning_of(d) ==
  Get(d, "taste", Get(d, "description", PyStr(<<"Ingen", "beskrivning", "tillganglig">>)))

druva_of(d) == Get(d, "grapes", Get(d, "grape", PyNone))

\* variant: the inner lookup without its default, product.get('organic')
ekologisk_of_no_default(d) == Get(d, "isOrganic", Get(d, "organic", PyNone))

ekologisk_of(d) == Get(d, "isOrganic", Get(d, "organic", PyBool(FALSE)))

lagerstatus_of(d) == PyStr(<<"tillganglig">>)

\* variant: the inner lookup without its default, str(None) for a record without identifier
systembolaget_id_of_no_default(d) ==
  PyStrOf(Get(d, "productNumber", Get(d, "productId", PyNone)))

\* str(product.get('productNumber', product.get('productId', '')))
systembolaget_id_of(d) ==
  PyStrOf(Get(d, "productNumber", Get(d, "productId", PyStr(<< >>))))

\* [exc |-> "none", v |-> the canonical dict] or the exception raised:
\* .get on a non-dict is an AttributeError, int() is the only other call that raises
transform_systembolaget_to_winefeed(p) ==
  IF p.t # "dict"
  THEN [exc |-> "AttributeError", v |-> PyNone]
  ELSE
    LET d == p.d
        pris == pris_sek_of(d)
    IN IF pris.exc # "none"
       THEN [exc |-> pris.exc, v |-> PyNone]
       ELSE [exc |-> "none",
             v |-> PyDict([
               namn |-> namn_of(d),
               producent |-> producent_of(d),
               land |-> land_of(d),
               region |-> region_of(d),
               pris_sek |-> PyInt(pris.v),
               beskrivning |-> beskrivning_of(d),
               druva |-> druva_of(d),
               ekologisk |-> ekologisk_of(d),
               lagerstatus |-> lagerstatus_of(d),
               systembolaget_id |-> systembolaget_id_of(d)])]

-----------------------------------------------------------------------------
(* Mock generators *)

\* create_mock_wines: the local list `wines` of templates
mock_wines_templates ==
  <<
    PyDict([name |-> PyStr(<<"Barolo", "DOCG">>),
            producer |-> PyStr(<<"Marchesi", "di", "Barolo">>),
            country |-> PyStr(<<"Italien">>),
            region |-> PyStr(<<"Piemonte">>),
            price |-> PyInt(385),
            description |-> PyStr(<<"Kraftfull", "Nebbiolo", "med", "toner", "av", "korsbar,", "tryffel", "och", "lader.", "Passar", "vilt,", "ostklass", "och", "roda", "kottgryter.", "Lang", "lagringsformaga.">>),
            grape |-> PyStr(<<"Nebbiolo">>),
            organic |-> PyBool(FALSE)]),
    PyDict([name |-> PyStr(<<"Chianti", "Classico", "Riserva", "DOCG">>),
            producer |-> PyStr(<<"Castello", "di", "Ama">>),
            country |-> PyStr(<<"Italien">>),
            region |-> PyStr(<<"Toscana">>),
            price |-> PyInt(215),
            description |-> PyStr(<<"Elegant", "Sangiovese", "med", "toner", "av", "korsbar,", "violer", "och", "lader.", "Perfekt", "till", "pasta", "med", "tomatsas", "och", "grillat", "kott.">>),
            grape |-> PyStr(<<"Sangiovese">>),
            organic |-> PyBool(FALSE)]),
    PyDict([name |-> PyStr(<<"Chablis", "Premier", "Cru">>),
            producer |-> PyStr(<<"William", "Fevre">>),
            country |-> PyStr(<<"Frankrike">>),
            region |-> PyStr(<<"Bourgogne">>),
            price |-> PyInt(265),
            description |-> PyStr(<<"Mineralisk", "Chardonnay", "med", "toner", "av", "citrus", "och", "vit", "persika.", "Utmarkt", "till", "skaldjur", "och", "vit", "fisk.">>),
            grape |-> PyStr(<<"Chardonnay">>),
            organic |-> PyBool(FALSE)]),
    PyDict([name |-> PyStr(<<"Rioja", "Reserva", "DOCa">>),
            producer |-> PyStr(<<"Marques", "de", "Riscal">>),
            country |-> PyStr(<<"Spanien">>),
            region |-> PyStr(<<"Rioja">>),
            price |-> PyInt(185),
            description |-> PyStr(<<"Balanserad", "Tempranillo", "med", "toner", "av", "roda", "bar,", "vanilj", "och", "ek.", "Passar", "lamm", "och", "tapas.">>),
            grape |-> PyStr(<<"Tempranillo">>),
            organic |-> PyBool(FALSE)]),
    PyDict([name |-> PyStr(<<"Pouilly-Fume">>),
            producer |-> PyStr(<<"Domaine", "Didier", "Dagueneau">>),
            country |-> PyStr(<<"Frankrike">>),
            region |-> PyStr(<<"Loire">>),
            price |-> PyInt(345),
            description |-> PyStr(<<"Aromatisk", "Sauvignon", "Blanc", "med", "toner", "av", "farsk", "frukt", "och", "mineraler.", "Perfekt", "till", "getost", "och", "skaldjur.">>),
            grape |-> PyStr(<<"Sauvignon", "Blanc">>),
            organic |-> PyBool(TRUE)]),
    PyDict([name |-> PyStr(<<"Amarone", "della", "Valpolicella", "DOCG">>),
            producer |-> PyStr(<<"Tommasi">>),
            country |-> PyStr(<<"Italien">>),
            region |-> PyStr(<<"Veneto">>),
            price |-> PyInt(425),
            description |-> PyStr(<<"Kraftfull", "och", "komplex", "med", "toner", "av", "morka", "bar,", "choklad", "och", "kryddor.", "Passar", "ostklass", "och", "vilt.">>),
            grape |-> PyStr(<<"Corvina,", "Rondinella">>),
            organic |-> PyBool(FALSE)]),
    PyDict([name |-> PyStr(<<"Chateauneuf-du-Pape">>),
            producer |-> PyStr(<<"Domaine", "du", "Vieux", "Telegraphe">>),
            country |-> PyStr(<<"Frankrike">>),
            region |-> PyStr(<<"Rhone">>),
            price |-> PyInt(395),
            description |-> PyStr(<<"Komplex", "blend", "med", "toner", "av", "morka", "bar,", "orter", "och", "kryddor.", "Perfekt", "till", "grillat", "kott.">>),
            grape |-> PyStr(<<"Grenache,", "Syrah,", "Mourvedre">>),
            organic |-> PyBool(FALSE)]),
    PyDict([name |-> PyStr(<<"Sancerre">>),
            producer |-> PyStr(<<"Pascal", "Jolivet">>),
            country |-> PyStr(<<"Frankrike">>),
            region |-> PyStr(<<"Loire">>),
            price |-> PyInt(195),
            description |-> PyStr(<<"Frasch", "Sauvignon", "Blanc", "med", "toner", "av", "citrus", "och", "grona", "applen.", "Perfekt", "till", "getost.">>),
            grape |-> PyStr(<<"Sauvignon", "Blanc">>),
            organic |-> PyBool(FALSE)])
  >>

\* import-simple.py: BASE_WINES
BASE_WINES ==
  <<
    PyDict([namn |-> PyStr(<<"Barolo", "DOCG", "2019">>),
            producent |-> PyStr(<<"Marchesi", "di", "Barolo">>),
            land |-> PyStr(<<"Italien">>),
            region |-> PyStr(<<"Piemonte">>),
            pris_sek |-> PyInt(385),
            beskrivning |-> PyStr(<<"Kraftfull", "Nebbiolo", "med", "toner", "av", "korsbar,", "tryffel", "och", "lader.", "Passar", "vilt,", "ostklass", "och", "roda", "kottgryter.", "Lang", "lagringsformaga.">>),
            druva |-> PyStr(<<"Nebbiolo">>),
            ekologisk |-> PyBool(FALSE),
            lagerstatus |-> PyStr(<<"tillganglig">>)]),
    PyDict([namn |-> PyStr(<<"Chianti", "Classico", "Riserva", "DOCG", "2020">>),
            producent |-> PyStr(<<"Castello", "di", "Ama">>),
            land |-> PyStr(<<"Italien">>),
            region |-> PyStr(<<"Toscana">>),
            pris_sek |-> PyInt(215),
            beskrivning |-> PyStr(<<"Elegant", "Sangiovese", "med", "toner", "av", "korsbar,", "violer", "och", "lader.", "Perfekt", "till", "pasta", "med", "tomatsas", "och", "grillat", "kott.">>),
            druva |-> PyStr(<<"Sangiovese">>),
            ekologisk |-> PyBool(FALSE),
            lagerstatus |-> PyStr(<<"tillganglig">>)]),
    PyDict([namn |-> PyStr(<<"Chablis", "Premier", "Cru", "2021">>),
            producent |-> PyStr(<<"William", "Fevre">>),
            land |-> PyStr(<<"Frankrike">>),
            region |-> PyStr(<<"Bourgogne">>),
            pris_sek |-> PyInt(265),
            beskrivning |-> PyStr(<<"Mineralisk", "Chardonnay", "med", "toner", "av", "citrus", "och", "vit", "persika.", "Utmarkt", "till", "skaldjur", "och", "vit", "fisk.">>),
            druva |-> PyStr(<<"Chardonnay">>),
            ekologisk |-> PyBool(FALSE),
            lagerstatus |-> PyStr(<<"tillganglig">>)]),
    PyDict([namn |-> PyStr(<<"Rioja", "Reserva", "DOCa", "2018">>),
            producent |-> PyStr(<<"Marques", "de", "Riscal">>),
            land |-> PyStr(<<"Spanien">>),
            region |-> PyStr(<<"Rioja">>),
            pris_sek |-> PyInt(185),
            beskrivning |-> PyStr(<<"Balanserad", "Tempranillo", "med", "toner", "av", "roda", "bar,", "vanilj", "och", "ek.", "Passar", "lamm", "och", "tapas.">>),
            druva |-> PyStr(<<"Tempranillo">>),
            ekologisk |-> PyBool(FALSE),
            lagerstatus |-> PyStr(<<"tillganglig">>)]),
    PyDict([namn |-> PyStr(<<"Pouilly-Fume", "2022">>),
            producent |-> PyStr(<<"Domaine", "Didier", "Dagueneau">>),
            land |-> PyStr(<<"Frankrike">>),
            region |-> PyStr(<<"Loire">>),
            pris_sek |-> PyInt(345),
            beskrivning |-> PyStr(<<"Aromatisk", "Sauvignon", "Blanc", "med", "toner", "av", "farsk", "frukt", "och", "mineraler.", "Perfekt", "till", "getost", "och", "skaldjur.">>),
            druva |-> PyStr(<<"Sauvignon", "Blanc">>),
            ekologisk |-> PyBool(TRUE),
            lagerstatus |-> PyStr(<<"tillganglig">>)]),
    PyDict([namn |-> PyStr(<<"Amarone", "della", "Valpolicella", "DOCG", "2017">>),
            producent |-> PyStr(<<"Tommasi">>),
            land |-> PyStr(<<"Italien">>),
            region |-> PyStr(<<"Veneto">>),
            pris_sek |-> PyInt(425),
            beskrivning |-> PyStr(<<"Kraftfull", "och", "komplex", "med", "toner", "av", "morka", "bar,", "choklad", "och", "kryddor.", "Passar", "ostklass", "och", "vilt.">>),
            druva |-> PyStr(<<"Corvina,", "Rondinella">>),
            ekologisk |-> PyBool(FALSE),
            lagerstatus |-> PyStr(<<"tillganglig">>)]),
    PyDict([namn |-> PyStr(<<"Chateauneuf-du-Pape", "2019">>),
            producent |-> PyStr(<<"Domaine", "du", "Vieux", "Telegraphe">>),
            land |-> PyStr(<<"Frankrike">>),
            region |-> PyStr(<<"Rhone">>),
            pris_sek |-> PyInt(395),
            beskrivning |-> PyStr(<<"Komplex", "blend", "med", "toner", "av", "morka", "bar,", "orter", "och", "kryddor.", "Perfekt", "till", "grillat", "kott.">>),
            druva |-> PyStr(<<"Grenache,", "Syrah,", "Mourvedre">>),
            ekologisk |-> PyBool(FALSE),
            lagerstatus |-> PyStr(<<"tillganglig">>)]),
    PyDict([namn |-> PyStr(<<"Sancerre", "2022">>),
            producent |-> PyStr(<<"Pascal", "Jolivet">>),
            land |-> PyStr(<<"Frankrike">>),
            region |-> PyStr(<<"Loire">>),
            pris_sek |-> PyInt(195),
            beskrivning |-> PyStr(<<"Frasch", "Sauvignon", "Blanc", "med", "toner", "av", "citrus", "och", "grona", "applen.", "Perfekt", "till", "getost.">>),
            druva |-> PyStr(<<"Sauvignon", "Blanc">>),
            ekologisk |-> PyBool(FALSE),
            lagerstatus |-> PyStr(<<"tillganglig">>)])
  >>

\* range(25) of create_mock_wines and of create_200_wines
MockRepetitions == 25
SimpleRepetitions == 25

\* result[:200] and wines[:200]
MockLimit == 200
SimpleLimit == 200

\* l[:n]
Take(l, n) == SubSeq(l, 1, Min(n, Len(l)))

\* variant: the price variation read as i * (10 % 100)
mock_entry_unwrapped_price(wine, k) ==
  PyDict([wine.d EXCEPT
            !.name = PyStr(wine.d.name.w \o <<IntToStr(2015 + (k % 8))>>),
            !.price = PyInt(wine.d.price.n + (k * (10 % 100)))])

\* create_mock_wines, body of the inner loop:
\* {**wine, "name": f"{wine['name']} {2015 + (i % 8)}", "price": wine["price"] + (i * 10 % 100)}
mock_entry(wine, k) ==
  PyDict([wine.d EXCEPT
            !.name = PyStr(wine.d.name.w \o <<IntToStr(2015 + (k % 8))>>),
            !.price = PyInt(wine.d.price.n + ((k * 10) % 100))])

\* create_200_wines, body of the inner loop:
\* namn = f"{wine['namn'].split()[0]} {year_suffix}", pris_sek += price_variation
simple_entry(base_wine, k) ==
  LET year_suffix == 2015 + (k % 8)
      price_variation == (k * 10) % 100
  IN PyDict([base_wine.d EXCEPT
               !.namn = PyStr(<<base_wine.d.namn.w[1]>> \o <<IntToStr(year_suffix)>>),
               !.pris_sek = PyInt(base_wine.d.pris_sek.n + price_variation)])

\* the inner loop `for wine in wines` of repetition k: one entry per template, in order
mock_pass(k) == [t \in 1..Len(mock_wines_templates) |-> mock_entry(mock_wines_templates[t], k)]

\* result after the first n iterations of the outer loop `for i in range(25)`
RECURSIVE mock_result_after(_)
mock_result_after(n) ==
  IF n = 0 THEN << >> ELSE mock_result_after(n - 1) \o mock_pass(n - 1)

\* create_mock_wines(): the whole call, as main() uses it
create_mock_wines == Take(mock_result_after(MockRepetitions), MockLimit)

\* the generators as loops, one append per step
Generators == {"create_mock_wines", "create_200_wines"}

templates_of(g) == IF g = "create_mock_wines" THEN mock_wines_templates ELSE BASE_WINES

entry_of(g, wine, k) ==
  IF g = "create_mock_wines" THEN mock_entry(wine, k) ELSE simple_entry(wine, k)

repetitions_of(g) == IF g = "create_mock_wines" THEN MockRepetitions ELSE SimpleRepetitions

limit_of(g) == IF g = "create_mock_wines" THEN MockLimit ELSE SimpleLimit

-----------------------------------------------------------------------------
(* fetch_wines_from_systembolaget *)

\* Outcome of requests.get + raise_for_status + response.json():
\*   ConnectionError, Timeout  raised by requests.get (timeout=30)
\*   HTTPError                 raised by raise_for_status on a non-2xx status
\*   JSONDecodeError           raised by response.json() on an unparseable body
\*                             (requests.exceptions.JSONDecodeError, a RequestException)
\*   json                      2xx with a parseable body
RequestExceptions == {"ConnectionError", "Timeout", "HTTPError", "JSONDecodeError"}

\* [exc |-> "none", v |-> the returned value] or the exception that escapes:
\* only RequestException is caught, data.get on a non-dict is an AttributeError
fetch_wines_from_systembolaget(resp) ==
  IF resp.kind \in RequestExceptions
  THEN [exc |-> "none", v |-> PyList(<< >>)]
  ELSE IF resp.body.t # "dict"
  THEN [exc |-> "AttributeError", v |-> PyNone]
  ELSE [exc |-> "none", v |-> Get(resp.body.d, "products", PyList(<< >>))]

-----------------------------------------------------------------------------
(* main: products, wines *)

\* variant: the mock data also replaces a fetch shorter than the requested limit
use_mock_when_short(p) == ~Truthy(p) \/ (p.t = "list" /\ Len(p.l) < 200)

\* `if not products`
use_mock(p) == ~Truthy(p)

\* the comprehension over a list: the first element whose transformation raises
\* ends it with that exception, otherwise every element is transformed in order
transform_list(l) ==
  LET r == [k \in 1..Len(l) |-> transform_systembolaget_to_winefeed(l[k])]
      bad == {k \in 1..Len(l) : r[k].exc # "none"}
  IN IF bad # {}
     THEN [exc |-> r[CHOOSE k \in bad : \A m \in bad : k <= m].exc, v |-> << >>]
     ELSE [exc |-> "none", v |-> [k \in 1..Len(l) |-> r[k].v]]

\* [transform_systembolaget_to_winefeed(p) for p in products], products truthy:
\* a list yields its elements; a str yields its characters and a dict its keys,
\* each a str without .get (AttributeError); a number is not iterable (TypeError)
transform_all(p) ==
  CASE p.t = "list" -> transform_list(p.l)
    [] p.t \in {"str", "dict"} -> [exc |-> "AttributeError", v |-> << >>]
    [] OTHER -> [exc |-> "TypeError", v |-> << >>]

\* input(...).strip().lower() over a line given as its characters
IsSpace(c) == c \in {" ", "\t"}

RECURSIVE LStrip(_)
LStrip(s) == IF s # << >> /\ IsSpace(Head(s)) THEN LStrip(Tail(s)) ELSE s

RECURSIVE RStrip(_)
RStrip(s) ==
  IF s # << >> /\ IsSpace(s[Len(s)]) THEN RStrip(SubSeq(s, 1, Len(s) - 1)) ELSE s

Strip(s) == RStrip(LStrip(s))

LowerChar(c) == CASE c = "Y" -> "y" [] c = "N" -> "n" [] c = "E" -> "e"
                  [] c = "S" -> "s" [] OTHER -> c

Lower(s) == [k \in 1..Len(s) |-> LowerChar(s[k])]

\* answer == 'y'
opted_in(raw) == Lower(Strip(raw)) = <<"y">>

-----------------------------------------------------------------------------
(* upload_to_supabase *)

\* batch_size = 50
batch_size == 50

\* variant: only an unset variable counts as missing, `is None`
credentials_missing_unset_only(url, key) == url = PyNone \/ key = PyNone

\* `if not SUPABASE_URL or not SUPABASE_SERVICE_KEY`
credentials_missing(url, key) == ~Truthy(url) \/ ~Truthy(key)

\* variant: the slice one short, wines[i:i+batch_size-1]
batch_slice_short(ws, k) == SubSeq(ws, k + 1, Min(k + batch_size - 1, Len(ws)))

\* wines[i:i+batch_size]
batch_slice(ws, k) == SubSeq(ws, k + 1, Min(k + batch_size, Len(ws)))

\* requests.post + raise_for_status: 2xx, or a RequestException
PostOutcomes == {"ok", "Timeout", "HTTPError"}

-----------------------------------------------------------------------------
(* Inputs *)

\* number of provider records of the largest sample response
MaxFetched == 8

\* longest sequence handed to the uploader on its own
MaxRecords == 120

provider_product(n) ==
  PyDict([productNumber |-> PyStr(<<IntToStr(1000 + n)>>),
          productNameBold |-> PyStr(<<"Vin", IntToStr(n)>>),
          producerName |-> PyStr(<<"Producent", IntToStr(n)>>),
          country |-> PyStr(<<"Frankrike">>),
          priceInclVat |-> PyFloat(1290 + 5 * n),
          taste |-> PyStr(<<"Fruktig">>),
          grapes |-> PyStr(<<"Merlot">>),
          isOrganic |-> PyBool(n % 2 = 0)])

\* a provider record identified by a numeric productId only
product_with_id_only ==
  PyDict([productId |-> PyInt(77), productNameBold |-> PyStr(<<"Vin">>),
          price |-> PyInt(99)])

\* a provider record with no identifier at all
product_without_id ==
  PyDict([productNameBold |-> PyStr(<<"Vin">>), priceInclVat |-> PyInt(149)])

product_null_price ==
  PyDict([productNumber |-> PyStr(<<"5">>), price |-> PyNone])

product_text_price ==
  PyDict([productNumber |-> PyStr(<<"6">>), price |-> PyStr(<<"gratis">>)])

ProductLists ==
  { << >>,
    <<provider_product(1)>>,
    [n \in 1..MaxFetched |-> provider_product(n)],
    <<product_with_id_only, provider_product(2)>>,
    <<product_without_id>>,
    <<provider_product(1), product_null_price>>,
    <<product_text_price>>,
    <<provider_product(1), PyNone>> }

\* JSON bodies of a 2xx response
Bodies ==
  { PyDict([products |-> PyList(l)]) : l \in ProductLists }
  \cup { PyDict([products |-> PyNone]),
         PyDict([products |-> PyStr(<<"unavailable">>)]),
         PyDict([message |-> PyStr(<<"Access", "denied">>)]),
         PyList(<< >>),
         PyList(<<provider_product(1)>>),
         PyStr(<<"error">>),
         PyNone }

Responses ==
  { [kind |-> e, body |-> PyNone] : e \in RequestExceptions }
  \cup { [kind |-> "json", body |-> b] : b \in Bodies }

\* values of the two environment variables: unset, empty, set
EnvValues == {PyNone, PyStr(<< >>), PyStr(<<"set">>)}

\* lines typed at the prompt
Answers ==
  { <<"y">>, <<"Y">>, <<" ", "y", " ">>, << >>, <<"n">>, <<"N">>,
    <<"y", "e", "s">>, <<"y", " ", "y">> }

SaveOutcomes == {"ok", "open_fails", "write_fails"}

NoResponse == [kind |-> "none", body |-> PyNone]
NoFile == [state |-> "absent", data |-> << >>]
NoResult == [exc |-> "none", v |-> PyNone]
NoException == [exc |-> "none", at |-> "none"]

-----------------------------------------------------------------------------
(* main() of import-systembolaget.py *)

Idle ==
  /\ product = PyNone /\ canonical = NoResult
  /\ gen = "none" /\ rep = 0 /\ tpl = 1 /\ result = << >>

Init ==
  /\ SUPABASE_URL \in EnvValues
  /\ SUPABASE_SERVICE_KEY \in EnvValues
  /\ pc = "main"
  /\ response = NoResponse
  /\ products = PyNone
  /\ mock_calls = 0
  /\ wines = << >>
  /\ file = NoFile
  /\ answer = << >>
  /\ i = 0
  /\ posts = << >>
  /\ steps = << >>
  /\ raised = NoException
  /\ Idle

\* products = fetch_wines_from_systembolaget(limit=200)
Fetch(resp) ==
  /\ pc = "main"
  /\ response' = resp
  /\ steps' = Append(steps, "GET")
  /\ LET r == fetch_wines_from_systembolaget(resp)
     IN IF r.exc # "none"
        THEN /\ raised' = [exc |-> r.exc, at |-> "fetch_wines_from_systembolaget"]
             /\ pc' = "crashed"
             /\ UNCHANGED products
        ELSE /\ products' = r.v
             /\ pc' = "fetched"
             /\ UNCHANGED raised
  /\ UNCHANGED <<SUPABASE_URL, SUPABASE_SERVICE_KEY, mock_calls, wines, file,
                 answer, i, posts, product, canonical, gen, rep, tpl, result>>

\* if not products: products = create_mock_wines()
FallbackMock ==
  /\ pc = "fetched"
  /\ use_mock(products)
  /\ products' = PyList(create_mock_wines)
  /\ mock_calls' = mock_calls + 1
  /\ steps' = Append(steps, "MOCK")
  /\ pc' = "transform"
  /\ UNCHANGED <<SUPABASE_URL, SUPABASE_SERVICE_KEY, response, wines, file,
                 answer, i, posts, raised, product, canonical, gen, rep, tpl, result>>

\* the fetched products are kept
KeepFetched ==
  /\ pc = "fetched"
  /\ ~use_mock(products)
  /\ pc' = "transform"
  /\ UNCHANGED <<SUPABASE_URL, SUPABASE_SERVICE_KEY, response, products, mock_calls,
                 wines, file, answer, i, posts, steps, raised, product, canonical,
                 gen, rep, tpl, result>>

\* wines = [transform_systembolaget_to_winefeed(p) for p in products]
Transform ==
  /\ pc = "transform"
  /\ LET r == transform_all(products)
     IN IF r.exc # "none"
        THEN /\ raised' = [exc |-> r.exc, at |-> "transform_systembolaget_to_winefeed"]
             /\ pc' = "crashed"
             /\ UNCHANGED <<wines, steps>>
        ELSE /\ wines' = r.v
             /\ steps' = Append(steps, "TRANSFORM")
             /\ pc' = "save"
             /\ UNCHANGED raised
  /\ UNCHANGED <<SUPABASE_URL, SUPABASE_SERVICE_KEY, response, products, mock_calls,
                 file, answer, i, posts, product, canonical, gen, rep, tpl, result>>

\* variant: the write wrapped in a try/except that prints the error and goes on
SaveToJson_swallowing(outcome) ==
  /\ pc = "save"
  /\ CASE outcome = "ok" ->
            /\ file' = [state |-> "complete", data |-> wines]
            /\ steps' = Append(steps, "WRITE_OK")
       [] outcome = "open_fails" ->
            /\ steps' = Append(steps, "WRITE_FAIL")
            /\ UNCHANGED file
       [] outcome = "write_fails" ->
            /\ file' = [state |-> "truncated", data |-> << >>]
            /\ steps' = Append(steps, "WRITE_FAIL")
  /\ pc' = "prompt"
  /\ UNCHANGED <<SUPABASE_URL, SUPABASE_SERVICE_KEY, response, products, mock_calls,
                 wines, answer, i, posts, raised, product, canonical, gen, rep, tpl,
                 result>>

\* save_to_json(wines): open(..., 'w') and json.dump; an OSError is not caught
SaveToJson(outcome) ==
  /\ pc = "save"
  /\ CASE outcome = "ok" ->
            /\ file' = [state |-> "complete", data |-> wines]
            /\ steps' = Append(steps, "WRITE_OK")
            /\ pc' = "prompt"
            /\ UNCHANGED raised
       [] outcome = "open_fails" ->
            /\ steps' = Append(steps, "WRITE_FAIL")
            /\ raised' = [exc |-> "OSError", at |-> "save_to_json"]
            /\ pc' = "crashed"
            /\ UNCHANGED file
       [] outcome = "write_fails" ->
            /\ file' = [state |-> "truncated", data |-> << >>]
            /\ steps' = Append(steps, "WRITE_FAIL")
            /\ raised' = [exc |-> "OSError", at |-> "save_to_json"]
            /\ pc' = "crashed"
  /\ UNCHANGED <<SUPABASE_URL, SUPABASE_SERVICE_KEY, response, products, mock_calls,
                 wines, answer, i, posts, product, canonical, gen, rep, tpl, result>>

\* answer = input(...).strip().lower(); if answer == 'y': upload_to_supabase(wines)
Prompt(raw) ==
  /\ pc = "prompt"
  /\ answer' = raw
  /\ steps' = Append(steps, "PROMPT")
  /\ pc' = IF opted_in(raw) THEN "upload_entry" ELSE "finish"
  /\ UNCHANGED <<SUPABASE_URL, SUPABASE_SERVICE_KEY, response, products, mock_calls,
                 wines, file, i, posts, raised, product, canonical, gen, rep, tpl,
                 result>>

\* input() at end of input: EOFError, not caught
PromptEOF ==
  /\ pc = "prompt"
  /\ steps' = Append(steps, "PROMPT")
  /\ raised' = [exc |-> "EOFError", at |-> "input"]
  /\ pc' = "crashed"
  /\ UNCHANGED <<SUPABASE_URL, SUPABASE_SERVICE_KEY, response, products, mock_calls,
                 wines, file, answer, i, posts, product, canonical, gen, rep, tpl,
                 result>>

\* upload_to_supabase: the credentials test, then the loop header
UploadEntry ==
  /\ pc = "upload_entry"
  /\ IF credentials_missing(SUPABASE_URL, SUPABASE_SERVICE_KEY)
     THEN pc' = "upload_returned" /\ UNCHANGED i
     ELSE pc' = "upload_loop" /\ i' = 0
  /\ UNCHANGED <<SUPABASE_URL, SUPABASE_SERVICE_KEY, response, products, mock_calls,
                 wines, file, answer, posts, steps, raised, product, canonical,
                 gen, rep, tpl, result>>

\* variant: a failed POST leaves the loop (break in the except clause)
PostBatch_break_on_failure(outcome) ==
  /\ pc = "upload_loop"
  /\ i < Len(wines)
  /\ posts' = Append(posts, [batch |-> batch_slice(wines, i), outcome |-> outcome])
  /\ steps' = Append(steps, "POST")
  /\ i' = i + batch_size
  /\ pc' = IF outcome = "ok" THEN pc ELSE "upload_returned"
  /\ UNCHANGED <<SUPABASE_URL, SUPABASE_SERVICE_KEY, response, products,
                 mock_calls, wines, file, answer, raised, product, canonical,
                 gen, rep, tpl, result>>

\* one iteration of `for i in range(0, len(wines), batch_size)`: the POST of the
\* batch; a RequestException is caught and printed, and the loop goes on
PostBatch(outcome) ==
  /\ pc = "upload_loop"
  /\ i < Len(wines)
  /\ posts' = Append(posts, [batch |-> batch_slice(wines, i), outcome |-> outcome])
  /\ steps' = Append(steps, "POST")
  /\ i' = i + batch_size
  /\ UNCHANGED <<SUPABASE_URL, SUPABASE_SERVICE_KEY, pc, response, products,
                 mock_calls, wines, file, answer, raised, product, canonical,
                 gen, rep, tpl, result>>

\* the range is exhausted: print and return
UploadReturn ==
  /\ pc = "upload_loop"
  /\ i >= Len(wines)
  /\ pc' = "upload_returned"
  /\ UNCHANGED <<SUPABASE_URL, SUPABASE_SERVICE_KEY, response, products, mock_calls,
                 wines, file, answer, i, posts, steps, raised, product, canonical,
                 gen, rep, tpl, result>>

\* print("Klart!")
Finish ==
  /\ pc \in {"upload_returned", "finish"}
  /\ pc' = "done"
  /\ UNCHANGED <<SUPABASE_URL, SUPABASE_SERVICE_KEY, response, products, mock_calls,
                 wines, file, answer, i, posts, steps, raised, product, canonical,
                 gen, rep, tpl, result>>

Next ==
  \/ \E resp \in Responses : Fetch(resp)
  \/ FallbackMock
  \/ KeepFetched
  \/ Transform
  \/ \E outcome \in SaveOutcomes : SaveToJson(outcome)
  \/ \E raw \in Answers : Prompt(raw)
  \/ PromptEOF
  \/ UploadEntry
  \/ \E outcome \in PostOutcomes : PostBatch(outcome)
  \/ UploadReturn
  \/ Finish

Spec == Init /\ [][Next]_vars

-----------------------------------------------------------------------------
(* upload_to_supabase called on its own *)

\* n canonical records, told apart by their identifiers
canonical_records(n) ==
  [k \in 1..n |-> transform_systembolaget_to_winefeed(provider_product(k)).v]

InitUpload ==
  /\ SUPABASE_URL \in EnvValues
  /\ SUPABASE_SERVICE_KEY \in EnvValues
  /\ pc = "upload_entry"
  /\ wines \in {canonical_records(n) : n \in 0..MaxRecords}
  /\ response = NoResponse
  /\ products = PyNone
  /\ mock_calls = 0
  /\ file = NoFile
  /\ answer = << >>
  /\ i = 0
  /\ posts = << >>
  /\ steps = << >>
  /\ raised = NoException
  /\ Idle

NextUpload ==
  \/ UploadEntry
  \/ \E outcome \in PostOutcomes : PostBatch(outcome)
  \/ UploadReturn

SpecUpload == InitUpload /\ [][NextUpload]_vars

-----------------------------------------------------------------------------
(* transform_systembolaget_to_winefeed called on its own *)

Keys ==
  {"productNameBold", "name", "producerName", "producer", "country", "region",
   "price", "priceInclVat", "taste", "description", "grapes", "grape",
   "isOrganic", "organic", "productNumber", "productId"}

\* a value of the kind the provider or the mock generator stores under the key
Sample(key) ==
  CASE key = "productNameBold" -> PyStr(<<"Chablis">>)
    [] key = "name" -> PyStr(<<"Barolo", "DOCG", "2015">>)
    [] key = "producerName" -> PyStr(<<"William", "Fevre">>)
    [] key = "producer" -> PyStr(<<"Tommasi">>)
    [] key = "country" -> PyStr(<<"Italien">>)
    [] key = "region" -> PyStr(<<"Loire">>)
    [] key = "price" -> PyInt(385)
    [] key = "priceInclVat" -> PyFloat(1295)
    [] key = "taste" -> PyStr(<<"Fruktig">>)
    [] key = "description" -> PyStr(<<"Elegant", "Sangiovese">>)
    [] key = "grapes" -> PyStr(<<"Merlot">>)
    [] key = "grape" -> PyStr(<<"Nebbiolo">>)
    [] key = "isOrganic" -> PyBool(TRUE)
    [] key = "organic" -> PyBool(FALSE)
    [] key = "productNumber" -> PyStr(<<"7904">>)
    [] key = "productId" -> PyInt(1004489)

\* records with any subset of the fields absent, the others well-formed
PartialProducts == { PyDict([key \in S |-> Sample(key)]) : S \in SUBSET Keys }

\* null, and values of each kind
OddValues ==
  {PyNone, PyStr(<<"ja">>), PyStr(<<"129">>), PyStr(<< >>), PyInt(7), PyFloat(75),
   PyBool(TRUE)}

\* records with one field holding null or a value of another kind
MalformedProducts ==
  { PyDict([key \in Keys |-> IF key = bad THEN v ELSE Sample(key)]) :
      bad \in Keys, v \in OddValues }
  \cup { PyDict([key \in {bad} |-> v]) : bad \in Keys, v \in OddValues }

InitTransform ==
  /\ product \in PartialProducts \cup MalformedProducts
  /\ canonical = NoResult
  /\ pc = "transform_call"
  /\ SUPABASE_URL = PyNone
  /\ SUPABASE_SERVICE_KEY = PyNone
  /\ response = NoResponse
  /\ products = PyNone
  /\ mock_calls = 0
  /\ wines = << >>
  /\ file = NoFile
  /\ answer = << >>
  /\ i = 0
  /\ posts = << >>
  /\ steps = << >>
  /\ raised = NoException
  /\ gen = "none" /\ rep = 0 /\ tpl = 1 /\ result = << >>

CallTransform ==
  /\ pc = "transform_call"
  /\ canonical' = transform_systembolaget_to_winefeed(product)
  /\ pc' = "transform_returned"
  /\ UNCHANGED <<SUPABASE_URL, SUPABASE_SERVICE_KEY, response, products, mock_calls,
                 wines, file, answer, i, posts, steps, raised, product, gen, rep,
                 tpl, result>>

NextTransform == CallTransform

SpecTransform == InitTransform /\ [][NextTransform]_vars

-----------------------------------------------------------------------------
(* create_mock_wines and create_200_wines, loop by loop *)

InitMock ==
  /\ gen \in Generators
  /\ pc = "gen_loop"
  /\ rep = 0
  /\ tpl = 1
  /\ result = << >>
  /\ product = PyNone
  /\ canonical = NoResult
  /\ SUPABASE_URL = PyNone
  /\ SUPABASE_SERVICE_KEY = PyNone
  /\ response = NoResponse
  /\ products = PyNone
  /\ mock_calls = 0
  /\ wines = << >>
  /\ file = NoFile
  /\ answer = << >>
  /\ i = 0
  /\ posts = << >>
  /\ steps = << >>
  /\ raised = NoException

\* one iteration of the inner loop: append the entry of template tpl, repetition rep
GenAppend ==
  /\ pc = "gen_loop"
  /\ rep < repetitions_of(gen)
  /\ result' = Append(result, entry_of(gen, templates_of(gen)[tpl], rep))
  /\ IF tpl = Len(templates_of(gen))
     THEN tpl' = 1 /\ rep' = rep + 1
     ELSE tpl' = tpl + 1 /\ rep' = rep
  /\ UNCHANGED <<SUPABASE_URL, SUPABASE_SERVICE_KEY, pc, response, products,
                 mock_calls, wines, file, answer, i, posts, steps, raised, product,
                 canonical, gen>>

\* return result[:200]
GenReturn ==
  /\ pc = "gen_loop"
  /\ rep >= repetitions_of(gen)
  /\ result' = Take(result, limit_of(gen))
  /\ pc' = "gen_returned"
  /\ UNCHANGED <<SUPABASE_URL, SUPABASE_SERVICE_KEY, response, products, mock_calls,
                 wines, file, answer, i, posts, steps, raised, product, canonical,
                 gen, rep, tpl>>

NextMock == GenAppend \/ GenReturn

SpecMock == InitMock /\ [][NextMock]_vars

-----------------------------------------------------------------------------
(* Properties *)

IsSet(v) == v.t = "str" /\ v.w # << >>

CredentialsPresent == IsSet(SUPABASE_URL) /\ IsSet(SUPABASE_SERVICE_KEY)

CeilDiv(n, b) == (n + b - 1) \div b

RECURSIVE Concat(_)
Concat(ss) == IF ss = << >> THEN << >> ELSE Head(ss) \o Concat(Tail(ss))

Batches == [k \in 1..Len(posts) |-> posts[k].batch]

Range(s) == {s[k] : k \in 1..Len(s)}

\* C1: with credentials present, once upload_to_supabase has returned for a
\* sequence of N records it has POSTed exactly ceil(N/50) batches, each of 1 to
\* 50 records, and the batches concatenated in POST order are the sequence.
C1_BatchPartition ==
  (pc = "upload_returned" /\ CredentialsPresent) =>
    /\ Len(posts) = CeilDiv(Len(wines), 50)
    /\ \A k \in 1..Len(posts) : Len(posts[k].batch) >= 1 /\ Len(posts[k].batch) <= 50
    /\ Concat(Batches) = wines

\* 101 records have gone out as three batches, the last of a single record
C1_Witness ==
  /\ pc = "upload_returned"
  /\ CredentialsPresent
  /\ Len(wines) = 101
  /\ Len(posts) = 3
  /\ Len(posts[3].batch) = 1

\* the k-th contiguous chunk of 50 of the sequence handed to the uploader
ExpectedBatch(k) ==
  [n \in 1..(Min(50 * k, Len(wines)) - 50 * (k - 1)) |-> wines[50 * (k - 1) + n]]

\* C2: with credentials present, whatever the outcome of each POST, the k-th POST
\* carries the k-th chunk of the sequence (each batch sent once, in order, none
\* retried or withdrawn), the loop goes on to the next chunk after a failure,
\* every chunk has been attempted when the uploader returns, and no exception
\* leaves the uploader.
C2_FailuresSkipped ==
  (CredentialsPresent /\ pc \in {"upload_loop", "upload_returned"}) =>
    /\ raised = NoException
    /\ \A k \in 1..Len(posts) : posts[k].batch = ExpectedBatch(k)
    /\ pc = "upload_loop" => i = 50 * Len(posts)
    /\ pc = "upload_returned" => 50 * Len(posts) >= Len(wines)

\* 120 records, the second of the three POSTs failed, the first and third went out
C2_Witness ==
  /\ pc = "upload_returned"
  /\ CredentialsPresent
  /\ Len(wines) = 120
  /\ Len(posts) = 3
  /\ posts[1].outcome = "ok"
  /\ posts[2].outcome = "HTTPError"
  /\ posts[3].outcome = "ok"
  /\ posts[3].batch = SubSeq(wines, 101, 120)

\* what the fetcher is specified to return for a response
SpecifiedFetch(resp) ==
  IF /\ resp.kind = "json"
     /\ resp.body.t = "dict"
     /\ "products" \in DOMAIN resp.body.d
  THEN resp.body.d.products
  ELSE PyList(<< >>)

\* C3: once the GET has been answered, no exception has left
\* fetch_wines_from_systembolaget, and what it returned is the 'products' value
\* of a 2xx JSON object that has the key, and the empty list in every other case.
C3_FetchNeverRaises ==
  pc # "main" =>
    /\ raised.at # "fetch_wines_from_systembolaget"
    /\ pc = "fetched" => products = SpecifiedFetch(response)

\* the value the fetcher returned in this run
Fetched == fetch_wines_from_systembolaget(response).v

TransformedMock ==
  [k \in 1..Len(create_mock_wines) |->
     transform_systembolaget_to_winefeed(create_mock_wines[k]).v]

\* C4: the mock generator is invoked at most once, and a completely written file
\* holds, when the fetcher returned the empty list, the transformed mock records
\* in order, and when it returned a non-empty list, the transformed fetched
\* records in order with the mock generator never invoked.
C4_SourceNeverMixed ==
  /\ mock_calls <= 1
  /\ file.state = "complete" =>
       /\ Fetched = PyList(<< >>) =>
            /\ mock_calls = 1
            /\ file.data = TransformedMock
       /\ (Fetched.t = "list" /\ Fetched.l # << >>) =>
            /\ mock_calls = 0
            /\ "MOCK" \notin Range(steps)
            /\ Len(file.data) = Len(Fetched.l)
            /\ \A k \in 1..Len(Fetched.l) :
                 file.data[k] = transform_systembolaget_to_winefeed(Fetched.l[k]).v

\* the GET timed out and the file holds the 200 transformed mock records
C4_Witness ==
  /\ file.state = "complete"
  /\ response.kind = "Timeout"
  /\ mock_calls = 1
  /\ Len(file.data) = 200

\* C5: when the storage URL or the service credential is unset or empty, the
\* uploader issues no POST for any input, never enters its loop, and raises
\* nothing.
C5_NoCredentialsNoPost ==
  ~CredentialsPresent =>
    /\ posts = << >>
    /\ pc \in {"upload_entry", "upload_returned"}
    /\ raised = NoException

\* 120 records, the URL set and the credential empty: returned without a POST
C5_Witness ==
  /\ pc = "upload_returned"
  /\ SUPABASE_URL = PyStr(<<"set">>)
  /\ SUPABASE_SERVICE_KEY = PyStr(<< >>)
  /\ Len(wines) = 120
  /\ posts = << >>

CanonicalFields ==
  {"namn", "producent", "land", "region", "pris_sek", "beskrivning", "druva",
   "ekologisk", "lagerstatus", "systembolaget_id"}

\* ordered fallback: the preferred key, then the other key, then the default
Lookup(d, preferred, other, default) ==
  IF preferred \in DOMAIN d THEN d[preferred]
  ELSE IF other \in DOMAIN d THEN d[other]
  ELSE default

\* every field present in the record holds a value of its own kind
WellFormed(p) == p.t = "dict" /\ \A key \in DOMAIN p.d : p.d[key] = Sample(key)

\* C6: for a raw record with any subset of its fields absent and the others
\* well-formed, the transformer returns a record with exactly the canonical
\* fields; name, producer, country, description and stock status are strings,
\* price an integer, organic a boolean, region and grape a string or null, the
\* identifier a string; and each field is the value under the preferred key if
\* present, else under the other key, else the default.
C6_TransformTotal ==
  (pc = "transform_returned" /\ WellFormed(product)) =>
    /\ canonical.exc = "none"
    /\ canonical.v.t = "dict"
    /\ DOMAIN canonical.v.d = CanonicalFields
    /\ LET o == canonical.v.d
           d == product.d
       IN /\ o.namn = Lookup(d, "productNameBold", "name", PyStr(<<"Okant", "vin">>))
          /\ o.producent = Lookup(d, "producerName", "producer", PyStr(<<"Okand">>))
          /\ o.land = Lookup(d, "country", "country", PyStr(<<"Okant">>))
          /\ o.region = Lookup(d, "region", "region", PyNone)
          /\ o.pris_sek = IF "price" \in DOMAIN d THEN PyInt(385)
                          ELSE IF "priceInclVat" \in DOMAIN d THEN PyInt(129)
                          ELSE PyInt(0)
          /\ o.beskrivning = Lookup(d, "taste", "description",
                                    PyStr(<<"Ingen", "beskrivning", "tillganglig">>))
          /\ o.druva = Lookup(d, "grapes", "grape", PyNone)
          /\ o.ekologisk = Lookup(d, "isOrganic", "organic", PyBool(FALSE))
          /\ o.lagerstatus = PyStr(<<"tillganglig">>)
          /\ o.systembolaget_id =
               IF "productNumber" \in DOMAIN d THEN PyStr(<<"7904">>)
               ELSE IF "productId" \in DOMAIN d THEN PyStr(<<"1004489">>)
               ELSE PyStr(<< >>)
          /\ \A f \in {"namn", "producent", "land", "beskrivning", "lagerstatus",
                       "systembolaget_id"} : o[f].t = "str"
          /\ o.pris_sek.t = "int"
          /\ o.ekologisk.t = "bool"
          /\ o.region.t \in {"str", "none"}
          /\ o.druva.t \in {"str", "none"}

\* a record holding only the mock name, the mock organic flag and the provider's
\* VAT-inclusive price has been transformed
C6_Witness ==
  /\ pc = "transform_returned"
  /\ WellFormed(product)
  /\ DOMAIN product.d = {"name", "organic", "priceInclVat"}
  /\ canonical.exc = "none"
  /\ canonical.v.d.pris_sek = PyInt(129)
  /\ canonical.v.d.land = PyStr(<<"Okant">>)

\* C7: for a raw record with a field holding null or a value of the wrong kind,
\* the transformer returns a canonical record (raises nothing) whose price is an
\* integer and whose organic flag is a boolean.
C7_MalformedNeverFails ==
  (pc = "transform_returned" /\ product \in MalformedProducts) =>
    /\ canonical.exc = "none"
    /\ canonical.v.d.pris_sek.t = "int"
    /\ canonical.v.d.ekologisk.t = "bool"

\* the raw record has a product number or a product id
HasIdentifier(p) == "productNumber" \in DOMAIN p.d \/ "productId" \in DOMAIN p.d

\* the text of an identifier: a string as it is, a number as its decimal numeral
IdentifierText(v) == IF v.t = "str" THEN v ELSE PyStr(<<IntToStr(v.n)>>)

name_key(g) == IF g = "create_mock_wines" THEN "name" ELSE "namn"

price_key(g) == IF g = "create_mock_wines" THEN "price" ELSE "pris_sek"

\* the record at index rr*8 + tt has the price and the other fields the claim gives
EntryAsSpecified(g, rec, rr, tt) ==
  LET tm == templates_of(g)[tt + 1].d
      r == rec.d
  IN /\ DOMAIN r = DOMAIN tm
     /\ r[price_key(g)].t = "int"
     /\ r[price_key(g)].n = tm[price_key(g)].n + ((rr * 10) % 100)
     /\ r[price_key(g)].n >= tm[price_key(g)].n
     /\ r[price_key(g)].n < tm[price_key(g)].n + 100
     /\ \A f \in DOMAIN tm \ {name_key(g), price_key(g)} : r[f] = tm[f]

\* the name the claim gives: first token of the template's name, then the year
FirstTokenAndYear(g, rr, tt) ==
  PyStr(<<templates_of(g)[tt + 1].d[name_key(g)].w[1], IntToStr(2015 + (rr % 8))>>)

\* the whole name of the template, then the year
WholeNameAndYear(g, rr, tt) ==
  PyStr(templates_of(g)[tt + 1].d[name_key(g)].w \o <<IntToStr(2015 + (rr % 8))>>)

\* C9 as stated: each generator has 8 templates and returns 200 records, the one
\* at index rr*8 + tt being template tt with the first token of its name followed
\* by the year 2015 + (rr mod 8), its price raised by (rr*10) mod 100, and every
\* other field unchanged.
C9_FirstTokenInBoth ==
  pc = "gen_returned" =>
    /\ Len(templates_of(gen)) = 8
    /\ Len(result) = 200
    /\ \A rr \in 0..24 : \A tt \in 0..7 :
         /\ EntryAsSpecified(gen, result[rr * 8 + tt + 1], rr, tt)
         /\ result[rr * 8 + tt + 1].d[name_key(gen)] = FirstTokenAndYear(gen, rr, tt)

\* C9 amended: as stated for create_200_wines; create_mock_wines differs in the
\* name, which is the template's whole name followed by the year.
C9_GeneratedRecords ==
  pc = "gen_returned" =>
    /\ Len(templates_of(gen)) = 8
    /\ Len(result) = 200
    /\ \A rr \in 0..24 : \A tt \in 0..7 :
         /\ EntryAsSpecified(gen, result[rr * 8 + tt + 1], rr, tt)
         /\ result[rr * 8 + tt + 1].d[name_key(gen)] =
              IF gen = "create_200_wines"
              THEN FirstTokenAndYear(gen, rr, tt)
              ELSE WholeNameAndYear(gen, rr, tt)

\* create_mock_wines has returned; its record 17*8 + 1 is "Chianti Classico
\* Riserva DOCG 2016" at 215 + 70
C9_Witness ==
  /\ pc = "gen_returned"
  /\ gen = "create_mock_wines"
  /\ Len(result) = 200
  /\ result[138].d.name = PyStr(<<"Chianti", "Classico", "Riserva", "DOCG", "2016">>)
  /\ result[138].d.price = PyInt(285)

Rank(s) ==
  CASE s = "GET" -> 1
    [] s = "MOCK" -> 2
    [] s = "TRANSFORM" -> 3
    [] s \in {"WRITE_OK", "WRITE_FAIL"} -> 4
    [] s = "PROMPT" -> 5
    [] s = "POST" -> 6

\* C10: the GET is the first operation of every run and is issued once; the
\* operations follow the order GET, mock generation, transformation, file write,
\* prompt, POSTs, none but the POST occurring twice; a POST is issued only with
\* the file completely written and the answer 'y' (case and surrounding blanks
\* aside); and after a failed file write the run has ended with no POST.
C10_StepOrder ==
  /\ pc # "main" => (steps # << >> /\ steps[1] = "GET")
  /\ \A a \in 1..Len(steps) : \A b \in 1..Len(steps) :
       a < b => \/ Rank(steps[a]) < Rank(steps[b])
                \/ steps[a] = "POST" /\ steps[b] = "POST"
  /\ Len(posts) = Cardinality({k \in 1..Len(steps) : steps[k] = "POST"})
  /\ posts # << >> =>
       /\ file = [state |-> "complete", data |-> wines]
       /\ answer \in {<<"y">>, <<"Y">>, <<" ", "y", " ">>}
  /\ "WRITE_FAIL" \in Range(steps) => (posts = << >> /\ pc = "crashed")

\* a run that fell back to mock data, wrote the file, uploaded four batches and ended
C10_Witness ==
  /\ pc = "done"
  /\ steps = <<"GET", "MOCK", "TRANSFORM", "WRITE_OK", "PROMPT",
               "POST", "POST", "POST", "POST">>
  /\ Len(posts) = 4

====
